---- MODULE Spec2Model ----
(***************************************************************************)
(* The task store of src/hooks/useTasks.ts: the collection `tasks`, the    *)
(* one-slot undo buffer `lastDeleted`, the `loading` and `error` fields,   *)
(* the five mutation callbacks and the two load effects.                   *)
(*                                                                         *)
(* React state: setTasks(updater) queues the updater; queued updaters are  *)
(* applied in dispatch order, each to the result of the one before it.     *)
(* `tasks` is therefore kept as the result of every updater dispatched so  *)
(* far.  `lastDeleted` is the value of the last render: it is the value    *)
(* the undoDelete callback has captured (its dependency list is            *)
(* [lastDeleted]).  Values passed to setLastDeleted since the last render  *)
(* wait in ldQueue (calls made by a handler) and ldRender (calls made by a *)
(* deleteTask updater that runs while rendering); Render commits them.     *)
(*                                                                         *)
(* addTask and updateTask read the clock inside their updaters.  React     *)
(* runs an updater inside the setState call only when neither the          *)
(* component's fiber nor its alternate has pending lanes; otherwise the    *)
(* updater waits in the queue and runs in the next render.  `lanes` keeps  *)
(* this: "none" (both empty), "noop" / "work" (updates queued: only        *)
(* setLastDeleted calls / some that change state), "alt" (nothing queued,  *)
(* the alternate still carries the lanes of the last render, which         *)
(* changed state).  A render that changes nothing clears both fibers.  A   *)
(* timestamp taken by a waiting updater is kept as AtRender and becomes    *)
(* the time of the render when Render commits.                             *)
(*                                                                         *)
(* Timestamps are the instants (ms since the epoch) that the ISO-8601      *)
(* strings of the source denote; NoTime stands for undefined.  An optional *)
(* value (Task | null, string | null, id?: string) is a sequence of        *)
(* length 0 or 1.                                                          *)
(***************************************************************************)
EXTENDS Integers, Sequences, FiniteSets, TLC

VARIABLES tasks, loading, error, lastDeleted, fetchedRef,
          isMounted, primary, timer, secondary, effectsOn,
          ldQueue, ldRender, batch, lanes, uuids, now

vars == <<tasks, loading, error, lastDeleted, fetchedRef,
          isMounted, primary, timer, secondary, effectsOn,
          ldQueue, ldRender, batch, lanes, uuids, now>>

storeVars == <<tasks, loading, error, lastDeleted>>
loaderVars == <<fetchedRef, isMounted, primary, timer, secondary, effectsOn>>

-----------------------------------------------------------------------------
(* Bounds of the model *)

\* handler calls and fetch resolutions between two renders
MaxBatch == 2
\* identifiers crypto.randomUUID() can hand out
MaxUuid == 2
\* clock ticks (ms) after the start
MaxTicks == 1
\* the clock starts StartDay days after the epoch
StartDay == 3
\* secondary fetches in flight at once
MaxSecondary == 1
\* members of the collection beyond which nothing is added
MaxTasks == 2

-----------------------------------------------------------------------------
(* Program constants *)

\* 24 * 3600 * 1000 ms
DayMs == 24 * 3600 * 1000
\* generateSalesTasks(50)
PlaceholderCount == 50

NoTime == 0 - 1
\* the value of new Date() in an updater that has not run yet
AtRender == 0 - 2
Null == <<>>
Some(v) == <<v>>

Statuses == {"Todo", "Done"}

-----------------------------------------------------------------------------
(* Helpers over the collection *)

IdsOf(s) == {s[i].id : i \in 1..Len(s)}

\* Array.prototype.find(...) || null
Find(s, id) ==
  IF \E i \in 1..Len(s) : s[i].id = id
  THEN LET i == CHOOSE i \in 1..Len(s) :
                  s[i].id = id /\ \A j \in 1..(i - 1) : s[j].id # id
       IN Some(s[i])
  ELSE Null

\* { ...t, ...patch }
Merge(t, patch) ==
  [f \in DOMAIN t |-> IF f \in DOMAIN patch THEN patch[f] ELSE t[f]]

-----------------------------------------------------------------------------
(* Inputs *)

\* what /tasks.json may hold: raw records, a field that is absent is NoTime
RawA ==
  << [id |-> "a", status |-> "Done", timeTaken |-> 0,
      createdAt |-> NoTime, completedAt |-> NoTime],
     [id |-> "b", status |-> "Todo", timeTaken |-> 2,
      createdAt |-> DayMs, completedAt |-> NoTime] >>

DataSets == {<<>>, RawA}

\* how a fetch of /tasks.json can end: a 2xx response with a body that
\* parses, a non-2xx response, or a throw of fetch / res.json(); what is
\* thrown carries a message or (a value that is no Error) none
FetchOutcomes ==
  {[kind |-> "ok", data |-> d, message |-> Null] : d \in DataSets}
    \cup {[kind |-> "status", data |-> <<>>,
           message |-> Some("Failed to load tasks.json (404)")]}
    \cup {[kind |-> "throw", data |-> <<>>, message |-> m] :
            m \in {Some("Unexpected token"), Null}}

\* a /tasks.json in which two records share an id
RawDup ==
  << [id |-> "a", status |-> "Todo", timeTaken |-> 1,
      createdAt |-> DayMs, completedAt |-> NoTime],
     [id |-> "b", status |-> "Todo", timeTaken |-> 2,
      createdAt |-> DayMs, completedAt |-> NoTime],
     [id |-> "a", status |-> "Done", timeTaken |-> 3,
      createdAt |-> DayMs, completedAt |-> NoTime] >>

\* FetchOutcomes, and a body with a duplicated id
FetchOutcomesDup ==
  FetchOutcomes \cup {[kind |-> "ok", data |-> RawDup, message |-> Null]}

\* the argument of addTask: Omit<Task, "id"> & { id?: string }
TaskInputs ==
  {[id |-> i, status |-> "Todo", timeTaken |-> 0] :
     i \in {Null, Some("x"), Some("")}}
    \cup {[id |-> i, status |-> "Done", timeTaken |-> 2] :
            i \in {Null, Some("x")}}

\* Partial<Task> restricted to status and timeTaken
PlainPatches ==
  {[status |-> "Done"], [status |-> "Todo"], [timeTaken |-> 0],
   [status |-> "Done", timeTaken |-> 2]}

\* Partial<Task>: patches that carry id, createdAt or completedAt as well
AnyPatches ==
  {[status |-> "Done"], [timeTaken |-> 0],
   [id |-> "y"], [id |-> "y", timeTaken |-> 0],
   [createdAt |-> 0], [completedAt |-> 0]}

\* the ids callers pass to updateTask and deleteTask ("zz" is never a member)
TargetIds == {"a", "x", "zz"}

\* the n-th value of crypto.randomUUID(): fresh, never a caller's id
Uuid(n) == "u" \o ToString(n)

-----------------------------------------------------------------------------
(* Pure functions *)

normalizeTasks(input, nowMs) ==
  [i \in 1..Len(input) |->
     LET t == input[i]
         created == IF t.createdAt # NoTime THEN t.createdAt
                    ELSE nowMs - i * DayMs
         completed == IF t.completedAt # NoTime THEN t.completedAt
                      ELSE IF t.status = "Done" THEN created + DayMs
                      ELSE NoTime
     IN [id |-> t.id,
         status |-> t.status,
         timeTaken |-> IF t.timeTaken > 0 THEN t.timeTaken ELSE 1,
         createdAt |-> created,
         completedAt |-> completed]]

\* the generator collaborator (src/utils/seed is not part of the sources):
\* count well-formed records with distinct ids
generateSalesTasks(count, nowMs) ==
  [i \in 1..count |->
     [id |-> "g" \o ToString(i),
      status |-> IF i % 2 = 0 THEN "Done" ELSE "Todo",
      timeTaken |-> 1 + (i % 3),
      createdAt |-> nowMs - i,
      completedAt |-> IF i % 2 = 0 THEN nowMs ELSE NoTime]]

\* how many crypto.randomUUID() calls the addTask updater makes
addTask_uuidCalls(prev, task) ==
  (IF task.id = Null THEN 1 ELSE 0)
    + (IF task.id # Null /\ task.id[1] \in IdsOf(prev) THEN 1 ELSE 0)

\* addTask without the `exists` check: the supplied id is taken as it is
addTask_keepsId(prev, task, u1, u2, nowMs) ==
  LET id == IF task.id # Null THEN task.id[1] ELSE u1
      timeTaken == IF task.timeTaken <= 0 THEN 1 ELSE task.timeTaken
      createdAt == nowMs
      completedAt == IF task.status = "Done" THEN createdAt ELSE NoTime
  IN Append(prev, [id |-> id, status |-> task.status,
                   timeTaken |-> timeTaken, createdAt |-> createdAt,
                   completedAt |-> completedAt])

\* the updater of addTask; u1, u2 are the values randomUUID() returns
addTask_updater(prev, task, u1, u2, nowMs) ==
  LET id0 == IF task.id # Null THEN task.id[1] ELSE u1
      exists == \E i \in 1..Len(prev) : prev[i].id = id0
      id == IF exists THEN u2 ELSE id0
      timeTaken == IF task.timeTaken <= 0 THEN 1 ELSE task.timeTaken
      createdAt == nowMs
      completedAt == IF task.status = "Done" THEN createdAt ELSE NoTime
  IN Append(prev, [id |-> id, status |-> task.status,
                   timeTaken |-> timeTaken, createdAt |-> createdAt,
                   completedAt |-> completedAt])

\* the first map without `!merged.completedAt`: every move to Done stamps
updateTask_restamps(t, id, patch, nowMs) ==
  IF t.id # id THEN t
  ELSE LET merged == Merge(t, patch)
       IN IF t.status # "Done" /\ merged.status = "Done"
          THEN [merged EXCEPT !.completedAt = nowMs]
          ELSE merged

\* the first map with its id test left out: every record takes the patch
updateTask_mergeAll(t, id, patch, nowMs) ==
  LET merged == Merge(t, patch)
  IN IF t.status # "Done" /\ merged.status = "Done"
          /\ merged.completedAt = NoTime
     THEN [merged EXCEPT !.completedAt = nowMs]
     ELSE merged

\* the first map without the stamp: it only merges
updateTask_onlyMerges(t, id, patch, nowMs) ==
  IF t.id # id THEN t ELSE Merge(t, patch)

\* the first map of updateTask: merge, stamp completedAt
updateTask_merge(t, id, patch, nowMs) ==
  IF t.id # id THEN t
  ELSE LET merged == Merge(t, patch)
       IN IF t.status # "Done" /\ merged.status = "Done"
             /\ merged.completedAt = NoTime
          THEN [merged EXCEPT !.completedAt = nowMs]
          ELSE merged

\* the second map of updateTask: "Ensure timeTaken remains > 0"
updateTask_clamp(t, id, patch) ==
  IF t.id = id
     /\ (IF "timeTaken" \in DOMAIN patch THEN patch.timeTaken
         ELSE t.timeTaken) <= 0
  THEN [t EXCEPT !.timeTaken = 1]
  ELSE t

\* the updater of updateTask
updateTask_updater(prev, id, patch, nowMs) ==
  LET next == [i \in 1..Len(prev) |->
                 updateTask_merge(prev[i], id, patch, nowMs)]
  IN [i \in 1..Len(next) |-> updateTask_clamp(next[i], id, patch)]

\* the updater of deleteTask: the record it hands to setLastDeleted
deleteTask_target(prev, id) == Find(prev, id)

\* the updater of deleteTask: the collection it returns
deleteTask_updater(prev, id) ==
  SelectSeq(prev, LAMBDA t : t.id # id)

\* the updater of the secondary load: prev.filter with the `seen` set
RECURSIVE dedupFrom(_, _)
dedupFrom(s, seen) ==
  IF s = <<>> THEN <<>>
  ELSE LET task == Head(s)
       IN IF task.id = "" \/ task.id \in seen
          THEN dedupFrom(Tail(s), seen)
          ELSE <<task>> \o dedupFrom(Tail(s), seen \cup {task.id})

secondary_updater(prev) == dedupFrom(prev, {})

-----------------------------------------------------------------------------
(* State after useTasks() has rendered once; no effect has run yet *)

Init ==
  /\ tasks = <<>>
  /\ loading = TRUE
  /\ error = Null
  /\ lastDeleted = Null
  /\ fetchedRef = FALSE
  /\ isMounted = FALSE
  /\ primary = "idle"
  /\ timer = FALSE
  /\ secondary = 0
  /\ effectsOn = FALSE
  /\ ldQueue = Null
  /\ ldRender = Null
  /\ batch = 0
  /\ lanes = "none"
  /\ uuids = 0
  /\ now = StartDay * DayMs

-----------------------------------------------------------------------------
(* The two effects *)

\* both effects run with the fetchedRef guard left out: every run of the
\* primary effect starts load()
RunEffects_unguarded ==
  /\ ~effectsOn
  /\ effectsOn' = TRUE
  /\ fetchedRef' = TRUE
  /\ isMounted' = TRUE
  /\ primary' = "fetching"
  /\ timer' = TRUE
  /\ UNCHANGED <<storeVars, secondary, ldQueue, ldRender, batch, lanes,
                 uuids, now>>

\* both effects run: on mount, and again after a cleanup that kept the state
\* (StrictMode's second call, a re-shown tree)
RunEffects ==
  /\ ~effectsOn
  /\ effectsOn' = TRUE
  /\ IF fetchedRef
     THEN UNCHANGED <<fetchedRef, isMounted, primary>>
     ELSE /\ fetchedRef' = TRUE
          /\ isMounted' = TRUE
          /\ primary' = "fetching"
  /\ timer' = TRUE
  /\ UNCHANGED <<storeVars, secondary, ldQueue, ldRender, batch, lanes,
                 uuids, now>>

\* the cleanups of both effects: isMounted = false, clearTimeout(timer)
Cleanup ==
  /\ effectsOn
  /\ effectsOn' = FALSE
  /\ isMounted' = FALSE
  /\ timer' = FALSE
  /\ UNCHANGED <<storeVars, fetchedRef, primary, secondary,
                 ldQueue, ldRender, batch, lanes, uuids, now>>

\* setTimeout(..., 0) fires: the secondary fetch is issued
TimerFires ==
  /\ timer
  /\ secondary < MaxSecondary
  /\ timer' = FALSE
  /\ secondary' = secondary + 1
  /\ UNCHANGED <<storeVars, fetchedRef, isMounted, primary, effectsOn,
                 ldQueue, ldRender, batch, lanes, uuids, now>>

\* load() with a catch that records nothing
load_swallows(o) ==
  /\ primary = "fetching"
  /\ batch < MaxBatch
  /\ primary' = "done"
  /\ IF o.kind = "ok"
     THEN LET normalized == normalizeTasks(o.data, now)
              finalData == IF Len(normalized) > 0 THEN normalized
                           ELSE generateSalesTasks(PlaceholderCount, now)
          IN tasks' = IF isMounted THEN finalData ELSE tasks
     ELSE tasks' = tasks
  /\ error' = error
  /\ loading' = IF isMounted THEN FALSE ELSE loading
  /\ batch' = IF isMounted THEN batch + 1 ELSE batch
  /\ lanes' = IF isMounted THEN "work" ELSE lanes
  /\ UNCHANGED <<lastDeleted, fetchedRef, isMounted, timer, secondary,
                 effectsOn, ldQueue, ldRender, uuids, now>>

\* load() installing with setTasks(prev => [...prev, ...finalData])
load_appends(o) ==
  /\ primary = "fetching"
  /\ batch < MaxBatch
  /\ primary' = "done"
  /\ IF o.kind = "ok"
     THEN LET normalized == normalizeTasks(o.data, now)
              finalData == IF Len(normalized) > 0 THEN normalized
                           ELSE generateSalesTasks(PlaceholderCount, now)
          IN /\ tasks' = IF isMounted THEN tasks \o finalData ELSE tasks
             /\ error' = error
     ELSE /\ error' = IF isMounted
                       THEN Some(IF o.message # Null THEN o.message[1]
                                 ELSE "Failed to load tasks")
                       ELSE error
          /\ tasks' = tasks
  /\ loading' = IF isMounted THEN FALSE ELSE loading
  /\ batch' = IF isMounted THEN batch + 1 ELSE batch
  /\ lanes' = IF isMounted THEN "work" ELSE lanes
  /\ UNCHANGED <<lastDeleted, fetchedRef, isMounted, timer, secondary,
                 effectsOn, ldQueue, ldRender, uuids, now>>

\* load() resumes after its awaits
load(o) ==
  /\ primary = "fetching"
  /\ batch < MaxBatch
  /\ primary' = "done"
  /\ IF o.kind = "ok"
     THEN LET normalized == normalizeTasks(o.data, now)
              finalData == IF Len(normalized) > 0 THEN normalized
                           ELSE generateSalesTasks(PlaceholderCount, now)
          IN /\ tasks' = IF isMounted THEN finalData ELSE tasks
             /\ error' = error
     ELSE /\ error' = IF isMounted
                       THEN Some(IF o.message # Null THEN o.message[1]
                                 ELSE "Failed to load tasks")
                       ELSE error
          /\ tasks' = tasks
  /\ loading' = IF isMounted THEN FALSE ELSE loading
  /\ batch' = IF isMounted THEN batch + 1 ELSE batch
  /\ lanes' = IF isMounted THEN "work" ELSE lanes
  /\ UNCHANGED <<lastDeleted, fetchedRef, isMounted, timer, secondary,
                 effectsOn, ldQueue, ldRender, uuids, now>>

PrimaryResolve == \E o \in FetchOutcomes : load(o)
PrimaryResolveDup == \E o \in FetchOutcomesDup : load(o)

\* the timer callback appending what it fetched before it filters
secondaryLoad_merges(o) ==
  /\ secondary > 0
  /\ batch < MaxBatch
  /\ secondary' = secondary - 1
  /\ IF o.kind = "ok"
     THEN /\ tasks' = secondary_updater(tasks \o normalizeTasks(o.data, now))
          /\ batch' = batch + 1
          /\ lanes' = "work"
     ELSE UNCHANGED <<tasks, batch, lanes>>
  /\ UNCHANGED <<loading, error, lastDeleted, fetchedRef, isMounted, primary,
                 timer, effectsOn, ldQueue, ldRender, uuids, now>>

\* the async body of the timer callback resumes after its awaits
secondaryLoad(o) ==
  /\ secondary > 0
  /\ batch < MaxBatch
  /\ secondary' = secondary - 1
  /\ IF o.kind = "ok"
     THEN /\ tasks' = secondary_updater(tasks)
          /\ batch' = batch + 1
          /\ lanes' = "work"
     ELSE UNCHANGED <<tasks, batch, lanes>>
  /\ UNCHANGED <<loading, error, lastDeleted, fetchedRef, isMounted, primary,
                 timer, effectsOn, ldQueue, ldRender, uuids, now>>

SecondaryResolve == \E o \in FetchOutcomes : secondaryLoad(o)

-----------------------------------------------------------------------------
(* The callbacks *)

\* what new Date() gives in an updater dispatched now: the updater runs
\* inside the call when no fiber has pending lanes, otherwise in the next
\* render
updaterClock == IF lanes = "none" THEN now ELSE AtRender

\* a record whose updater ran in the render at nowMs
stampedAt(t, nowMs) ==
  [t EXCEPT !.createdAt = IF @ = AtRender THEN nowMs ELSE @,
            !.completedAt = IF @ = AtRender THEN nowMs ELSE @]

\* addTask computing from the collection its closure captured at the first
\* render (setTasks([...tasks, t]) under useCallback(..., []))
addTask_stale(task) ==
  /\ batch < MaxBatch
  /\ Len(tasks) < MaxTasks
  /\ uuids + addTask_uuidCalls(<<>>, task) <= MaxUuid
  /\ batch' = batch + 1
  /\ lanes' = "work"
  /\ UNCHANGED <<loading, error, lastDeleted, loaderVars,
                 ldQueue, ldRender, now>>
  /\ uuids' = uuids + addTask_uuidCalls(<<>>, task)
  /\ tasks' = addTask_updater(<<>>, task, Uuid(uuids + 1),
                IF task.id = Null THEN Uuid(uuids + 2) ELSE Uuid(uuids + 1),
                updaterClock)

addTask(task) ==
  /\ batch < MaxBatch
  /\ Len(tasks) < MaxTasks
  /\ uuids + addTask_uuidCalls(tasks, task) <= MaxUuid
  /\ batch' = batch + 1
  /\ lanes' = "work"
  /\ UNCHANGED <<loading, error, lastDeleted, loaderVars,
                 ldQueue, ldRender, now>>
  /\ uuids' = uuids + addTask_uuidCalls(tasks, task)
  /\ tasks' = addTask_updater(tasks, task, Uuid(uuids + 1),
                IF task.id = Null THEN Uuid(uuids + 2) ELSE Uuid(uuids + 1),
                updaterClock)

updateTask(id, patch) ==
  /\ batch < MaxBatch
  /\ batch' = batch + 1
  /\ lanes' = "work"
  /\ UNCHANGED <<loading, error, lastDeleted, loaderVars,
                 ldQueue, ldRender, uuids, now>>
  /\ tasks' = updateTask_updater(tasks, id, patch, updaterClock)

\* eager: the updater runs inside the setTasks call (no fiber has pending
\* lanes), so its setLastDeleted(target) is queued in call order; otherwise
\* it runs while rendering, after every call the handlers have queued
deleteTask(id, eager) ==
  /\ batch < MaxBatch
  /\ eager <=> lanes = "none"
  /\ batch' = batch + 1
  /\ lanes' = "work"
  /\ UNCHANGED <<loading, error, lastDeleted, loaderVars, uuids, now>>
  /\ IF eager
     THEN /\ ldQueue' = Some(deleteTask_target(tasks, id))
          /\ ldRender' = ldRender
     ELSE /\ ldRender' = Some(deleteTask_target(tasks, id))
          /\ ldQueue' = ldQueue
  /\ tasks' = deleteTask_updater(tasks, id)

undoDelete ==
  /\ batch < MaxBatch
  /\ Len(tasks) < MaxTasks
  /\ IF lastDeleted = Null
     THEN UNCHANGED <<tasks, ldQueue, batch, lanes>>
     ELSE /\ tasks' = Append(tasks, lastDeleted[1])
          /\ ldQueue' = Some(Null)
          /\ batch' = batch + 1
          /\ lanes' = "work"
  /\ UNCHANGED <<loading, error, lastDeleted, loaderVars,
                 ldRender, uuids, now>>

\* setLastDeleted(null): when no fiber has pending lanes and lastDeleted is
\* null already, React computes the state in the call, finds it unchanged
\* and queues nothing
clearLastDeleted ==
  /\ batch < MaxBatch
  /\ IF lanes = "none" /\ lastDeleted = Null
     THEN UNCHANGED <<ldQueue, batch, lanes>>
     ELSE /\ ldQueue' = Some(Null)
          /\ batch' = batch + 1
          /\ lanes' = IF lanes = "work" THEN "work" ELSE "noop"
  /\ UNCHANGED <<tasks, loading, error, lastDeleted, loaderVars,
                 ldRender, uuids, now>>

\* the value lastDeleted takes at the next render
queuedLastDeleted ==
  IF ldRender # Null THEN ldRender[1]
  ELSE IF ldQueue # Null THEN ldQueue[1]
  ELSE lastDeleted

\* React renders: the updaters that waited run, their new Date() giving
\* the time of the render, and the queued values become the state the
\* callbacks capture; the fiber rendered into has its lanes cleared, the
\* other one too when the render changed nothing
Render ==
  /\ batch > 0
  /\ tasks' = [i \in 1..Len(tasks) |-> stampedAt(tasks[i], now)]
  /\ lastDeleted' = IF queuedLastDeleted = Null THEN Null
                    ELSE Some(stampedAt(queuedLastDeleted[1], now))
  /\ ldQueue' = Null
  /\ ldRender' = Null
  /\ batch' = 0
  /\ lanes' = IF lanes = "work" \/ queuedLastDeleted # lastDeleted
              THEN "alt" ELSE "none"
  /\ UNCHANGED <<loading, error, loaderVars, uuids, now>>

\* the clock new Date() and Date.now() read
Tick ==
  /\ now < StartDay * DayMs + MaxTicks
  /\ now' = now + 1
  /\ UNCHANGED <<storeVars, loaderVars, ldQueue, ldRender, batch, lanes,
                 uuids>>

AddTask == \E task \in TaskInputs : addTask(task)
UpdateTask == \E id \in TargetIds, patch \in PlainPatches : updateTask(id, patch)
UpdateTaskAny == \E id \in TargetIds, patch \in AnyPatches : updateTask(id, patch)
DeleteTask == \E id \in TargetIds, eager \in BOOLEAN : deleteTask(id, eager)

\* every operation, all within one tick of the clock
Next ==
  \/ RunEffects
  \/ Cleanup
  \/ TimerFires
  \/ PrimaryResolve
  \/ SecondaryResolve
  \/ AddTask
  \/ UpdateTask
  \/ DeleteTask
  \/ undoDelete
  \/ clearLastDeleted
  \/ Render

Spec == Init /\ [][Next]_vars

\* create and update alone, with the primary load, under a running clock
NextUpdate ==
  \/ RunEffects
  \/ PrimaryResolve
  \/ AddTask
  \/ UpdateTask
  \/ Render
  \/ Tick

SpecUpdate == Init /\ [][NextUpdate]_vars

\* the store with patches of any subset of the Task fields
NextAnyPatch ==
  \/ RunEffects
  \/ PrimaryResolve
  \/ AddTask
  \/ UpdateTaskAny
  \/ DeleteTask
  \/ undoDelete
  \/ clearLastDeleted
  \/ Render

SpecAnyPatch == Init /\ [][NextAnyPatch]_vars

\* the two loads against a store that is only created into: a mount, an
\* unmount and a remount, a response whose records share an id
NextLoader ==
  \/ RunEffects
  \/ Cleanup
  \/ TimerFires
  \/ PrimaryResolveDup
  \/ SecondaryResolve
  \/ AddTask
  \/ Render

SpecLoader == Init /\ [][NextLoader]_vars

\* the callbacks that compute from the previous collection, and the
\* secondary pass, dispatched with and without a render in between
NextBatch ==
  \/ RunEffects
  \/ TimerFires
  \/ SecondaryResolve
  \/ AddTask
  \/ UpdateTask
  \/ DeleteTask
  \/ Render

SpecBatch == Init /\ [][NextBatch]_vars

-----------------------------------------------------------------------------
(* Properties *)

\* C1: no two members of the collection share an id.
C1_UniqueIds ==
  \A i, j \in 1..Len(tasks) : i # j => tasks[i].id # tasks[j].id

\* C2: addTask with an explicit id that a member already carries appends
\* exactly one record, whose id no member carried; the members stay as
\* they were.
C2_CollidingIdRegenerated ==
  [][\A task \in TaskInputs :
       (addTask(task) /\ task.id # Null /\ task.id[1] \in IdsOf(tasks))
         => /\ Len(tasks') = Len(tasks) + 1
            /\ SubSeq(tasks', 1, Len(tasks)) = tasks
            /\ tasks'[Len(tasks')].id \notin IdsOf(tasks)]_vars

\* a member with id "x" is followed by the record a create put after it
\* under a regenerated id
C2_Witness ==
  \E i, j \in 1..Len(tasks) :
    /\ i < j
    /\ tasks[i].id = "x"
    /\ tasks[j].id \in {Uuid(n) : n \in 1..uuids}

\* C3: every member of the collection has timeTaken > 0.
C3_TimeTakenPositive ==
  \A i \in 1..Len(tasks) : tasks[i].timeTaken > 0

\* the first of two undoDelete calls made from one render has acted: it
\* appended the captured record and queued the emptying of the slot
FirstUndoDone ==
  /\ lastDeleted # Null
  /\ ldQueue = Some(Null)
  /\ ldRender = Null
  /\ tasks # <<>>
  /\ tasks[Len(tasks)] = lastDeleted[1]

\* C4: after delete(A), the second of two undoDelete calls finds the slot
\* emptied by the first and changes neither the collection nor the slot.
C4_SecondUndoIsNoOp ==
  [][(undoDelete /\ FirstUndoDone)
       => (tasks' = tasks /\ queuedLastDeleted' = Null)]_vars

\* C5: once B has been deleted after A (A is the record the last render
\* shows in the slot, B the record now queued for it), undoDelete restores
\* B and never puts A back.
C5_UndoRestoresLatest ==
  [][(undoDelete /\ lastDeleted # Null /\ queuedLastDeleted # Null
        /\ queuedLastDeleted # lastDeleted)
       => tasks' = Append(tasks, queuedLastDeleted[1])]_vars

\* C6 as stated: an update that moves a record to Done, its patch carrying
\* no completedAt, leaves completedAt at the time of the update (the time
\* its updater runs), whatever the record held before.
C6_StampedOnEveryTransition ==
  [][\A id \in TargetIds, patch \in PlainPatches :
       updateTask(id, patch)
         => \A i \in 1..Len(tasks) :
              (tasks[i].id = id /\ tasks[i].status # "Done"
                 /\ tasks'[i].status = "Done")
                => tasks'[i].completedAt = updaterClock]_vars

\* C6 amended: such an update leaves completedAt at the time its updater
\* runs (the call when nothing is queued, the next render otherwise) when
\* the record had no completedAt, and keeps the completedAt the record
\* already had otherwise.
C6_StampedWhenUnset ==
  [][/\ \A id \in TargetIds, patch \in PlainPatches :
          updateTask(id, patch)
            => \A i \in 1..Len(tasks) :
                 (tasks[i].id = id /\ tasks[i].status # "Done"
                    /\ tasks'[i].status = "Done")
                   => tasks'[i].completedAt =
                        IF tasks[i].completedAt = NoTime THEN updaterClock
                        ELSE tasks[i].completedAt
     /\ Render =>
          \A i \in 1..Len(tasks) :
            tasks'[i].completedAt =
              IF tasks[i].completedAt = AtRender THEN now
              ELSE tasks[i].completedAt]_vars

\* a created record was moved to Done by an update later than its creation
C6_Witness ==
  \E i \in 1..Len(tasks) :
    /\ tasks[i].id = "x"
    /\ tasks[i].status = "Done"
    /\ tasks[i].completedAt = now
    /\ tasks[i].createdAt >= 0
    /\ tasks[i].createdAt < tasks[i].completedAt

C7_DoneHasCompletedAt ==
  \A i \in 1..Len(tasks) :
    tasks[i].status = "Done" => tasks[i].completedAt # NoTime

C7_UpdateKeepsCompletedAt ==
  \A id \in TargetIds, patch \in PlainPatches :
    updateTask(id, patch)
      => \A i \in 1..Len(tasks) :
           (tasks[i].id = id /\ tasks[i].status = "Done")
             => IF tasks'[i].status = "Done"
                THEN tasks'[i].completedAt = tasks[i].completedAt
                ELSE tasks'[i].completedAt # NoTime

\* C7: with patches that carry no completedAt, every Done member has
\* completedAt set; an update of a Done record to Done leaves completedAt
\* as it was; an update away from Done does not clear it.
C7_CompletedAtKept ==
  [][/\ C7_DoneHasCompletedAt
     /\ C7_DoneHasCompletedAt'
     /\ C7_UpdateKeepsCompletedAt]_vars

\* a created record was moved away from Done and still carries completedAt
C7_Witness ==
  \E i \in 1..Len(tasks) :
    /\ tasks[i].id = "x"
    /\ tasks[i].status # "Done"
    /\ tasks[i].completedAt # NoTime

\* C8: deleteTask with an id no member carries changes neither the
\* collection nor what the slot holds.
C8_DeleteAbsentIsNoOp ==
  [][\A id \in TargetIds, eager \in BOOLEAN :
       (deleteTask(id, eager) /\ id \notin IdsOf(tasks))
         => (tasks' = tasks /\ queuedLastDeleted' = queuedLastDeleted)]_vars

\* C9: once the primary fetch has resolved, the effects being in place,
\* loading is false.
C9_LoadingEnds ==
  (primary = "done" /\ effectsOn) => loading = FALSE

\* C10: a fetch that resolves after the effect that issued it was cleaned
\* up changes nothing of the store.
C10_NoWriteAfterTeardown ==
  [][((PrimaryResolve /\ ~isMounted) \/ (SecondaryResolve /\ ~effectsOn))
       => UNCHANGED <<tasks, loading, error, lastDeleted>>]_vars

\* C11: the body of the primary load starts at most once per store: it
\* starts only while the guard flag is unset, the flag once set stays set,
\* and a load that has finished is never started or finished again.
C11_PrimaryStartsOnce ==
  [][/\ fetchedRef => fetchedRef'
     /\ (primary # "fetching" /\ primary' = "fetching") => ~fetchedRef
     /\ primary = "done" => (primary' = "done" /\ ~PrimaryResolveDup)
     /\ (RunEffects /\ fetchedRef) => UNCHANGED <<primary, storeVars>>]_vars

\* the primary effect has run a second time (after a cleanup) and the load
\* of the first run has finished
C11_Witness ==
  /\ effectsOn
  /\ fetchedRef
  /\ ~isMounted
  /\ primary = "done"

\* s is an order-preserving sub-sequence of t
RECURSIVE IsSubSeqOf(_, _)
IsSubSeqOf(s, t) ==
  IF s = <<>> THEN TRUE
  ELSE IF t = <<>> THEN FALSE
  ELSE IF Head(s) = Head(t) THEN IsSubSeqOf(Tail(s), Tail(t))
  ELSE IsSubSeqOf(s, Tail(t))

\* C12: whenever the secondary load resolves, the collection after it is an
\* order-preserving sub-sequence of the collection before it: it introduces
\* no record, in particular none of the records it fetched.
C12_SecondaryAddsNothing ==
  [][SecondaryResolve => IsSubSeqOf(tasks', tasks)]_vars

\* the secondary load has resolved over a collection that holds records
C12_Witness ==
  /\ effectsOn
  /\ ~timer
  /\ secondary = 0
  /\ tasks # <<>>

\* C13: the secondary dedup never removes a record whose id no other member
\* carries, whatever string that id is (the empty string included).
C13_DedupKeepsUniqueIds ==
  [][SecondaryResolve =>
       \A i \in 1..Len(tasks) :
         (\A j \in 1..Len(tasks) : tasks[j].id = tasks[i].id => j = i)
           => \E k \in 1..Len(tasks') : tasks'[k] = tasks[i]]_vars

\* the index of the first record of c that carries id
FirstIndexOf(c, id) ==
  CHOOSE i \in 1..Len(c) :
    /\ c[i].id = id
    /\ \A j \in 1..(i - 1) : c[j].id # id

\* C14: the dedup of the secondary load is idempotent and keep-first: over
\* the collection c that the store holds, dedup(dedup(c)) = dedup(c), the
\* result holds for each id occurring in c exactly the first record of c
\* with that id, in the order of c, and a c with pairwise distinct ids is
\* returned unchanged.
C14_DedupKeepFirst ==
  LET d == secondary_updater(tasks)
  IN /\ secondary_updater(d) = d
     /\ IsSubSeqOf(d, tasks)
     /\ \A id \in IdsOf(tasks) :
          /\ Cardinality({k \in 1..Len(d) : d[k].id = id}) = 1
          /\ \E k \in 1..Len(d) : d[k] = tasks[FirstIndexOf(tasks, id)]
     /\ Cardinality(IdsOf(tasks)) = Len(tasks) => d = tasks

\* C15: a primary load that fails (non-2xx response, or a throw of the fetch
\* or of the parse) while the effect is alive sets error to a non-empty
\* message and loading to false and leaves the collection and the undo slot
\* as they were; a secondary load that fails leaves collection, loading and
\* error as they were.
C15_FailureHandled ==
  [][\A o \in FetchOutcomesDup :
       o.kind # "ok" =>
         /\ (load(o) /\ isMounted) =>
              /\ error' # Null
              /\ error'[1] # ""
              /\ loading' = FALSE
              /\ tasks' = tasks
              /\ queuedLastDeleted' = queuedLastDeleted
         /\ secondaryLoad(o) => UNCHANGED <<tasks, loading, error>>]_vars

\* the primary load has failed over a collection that holds a record
C15_Witness ==
  /\ primary = "done"
  /\ error # Null
  /\ loading = FALSE
  /\ tasks # <<>>

\* C16: a primary load that succeeds while the effect is alive leaves as the
\* collection exactly the normalized fetched records, or the placeholder set
\* of PlaceholderCount records when normalization yields none; no record
\* the collection held before is part of it, and error stays unset.
C16_SuccessInstalls ==
  [][\A o \in FetchOutcomesDup :
       (load(o) /\ o.kind = "ok" /\ isMounted) =>
         LET normalized == normalizeTasks(o.data, now)
         IN /\ IF Len(normalized) > 0
               THEN tasks' = normalized
               ELSE /\ Len(tasks') = PlaceholderCount
                    /\ tasks' = generateSalesTasks(PlaceholderCount, now)
            /\ \A i \in 1..Len(tasks) :
                 \A k \in 1..Len(tasks') : tasks'[k] # tasks[i]
            /\ error = Null
            /\ error' = Null
            /\ loading' = FALSE]_vars

\* the primary load has succeeded and a record created while the fetch was
\* pending is no longer a member
C16_Witness ==
  /\ primary = "done"
  /\ error = Null
  /\ loading = FALSE
  /\ uuids > 0
  /\ Uuid(1) \notin IdsOf(tasks)
  /\ tasks # <<>>

\* C17: no update is lost among addTask, updateTask, deleteTask and the
\* secondary dedup dispatched without a render in between: each of them
\* acts on the collection the dispatches before it have left.  A create
\* keeps every member and appends one record; an update keeps length, order
\* and every record with another id; a delete removes the records with its
\* id and no other; a dedup pass removes records and adds none.
C17_NoLostUpdate ==
  [][batch > 0 =>
       /\ \A task \in TaskInputs :
            addTask(task) =>
              /\ Len(tasks') = Len(tasks) + 1
              /\ SubSeq(tasks', 1, Len(tasks)) = tasks
       /\ \A id \in TargetIds, patch \in PlainPatches :
            updateTask(id, patch) =>
              /\ Len(tasks') = Len(tasks)
              /\ \A i \in 1..Len(tasks) :
                   tasks[i].id # id => tasks'[i] = tasks[i]
              /\ \A i \in 1..Len(tasks) : tasks'[i].id = tasks[i].id
       /\ \A id \in TargetIds, eager \in BOOLEAN :
            deleteTask(id, eager) =>
              /\ IsSubSeqOf(tasks', tasks)
              /\ IdsOf(tasks') = IdsOf(tasks) \ {id}
              /\ Len(tasks') = Cardinality({i \in 1..Len(tasks) :
                                              tasks[i].id # id})
       /\ SecondaryResolve =>
            /\ IsSubSeqOf(tasks', tasks)
            /\ IdsOf(tasks) \ {""} \subseteq IdsOf(tasks')]_vars

\* two creates were dispatched with no render in between and both records
\* are members
C17_Witness ==
  /\ batch = 2
  /\ uuids = 2
  /\ Len(tasks) = 2
  /\ IdsOf(tasks) = {Uuid(1), Uuid(2)}
  /\ ~effectsOn

\* C18: updateTask(id, patch) affects only the record that carries id: the
\* length of the collection, its order and every other record are
\* unchanged, and so is the undo slot; when no member carries id the
\* collection, loading, error and the undo slot are all unchanged.
C18_UpdateFrame ==
  [][\A id \in TargetIds, patch \in PlainPatches :
       updateTask(id, patch) =>
         /\ Len(tasks') = Len(tasks)
         /\ \A i \in 1..Len(tasks) : tasks'[i].id = tasks[i].id
         /\ \A i \in 1..Len(tasks) :
              tasks[i].id # id => tasks'[i] = tasks[i]
         /\ lastDeleted' = lastDeleted
         /\ queuedLastDeleted' = queuedLastDeleted
         /\ id \notin IdsOf(tasks) =>
              UNCHANGED <<tasks, loading, error>>]_vars

\* the created record "x" was updated to Done next to another member while
\* the undo slot holds a record
C18_Witness ==
  /\ lastDeleted # Null
  /\ Len(tasks) = 2
  /\ \E i \in 1..Len(tasks) :
       /\ tasks[i].id = "x"
       /\ tasks[i].status = "Done"
       /\ tasks[i].timeTaken = 1

\* C19: no updateTask(id, patch), for any patch the interface accepts,
\* changes the id or the createdAt of the record it targets; undoDelete
\* appends the record the slot holds, with every field as it was deleted,
\* at the end of the collection.
C19_IdentityFieldsStable ==
  [][/\ \A id \in TargetIds, patch \in AnyPatches :
          updateTask(id, patch) =>
            \A i \in 1..Len(tasks) :
              tasks[i].id = id =>
                /\ tasks'[i].id = tasks[i].id
                /\ tasks'[i].createdAt = tasks[i].createdAt
     /\ (undoDelete /\ lastDeleted # Null) =>
          tasks' = Append(tasks, lastDeleted[1])]_vars

\* C20: at a render, if the undo slot holds a record then no member of the
\* collection carries that record's id (the slot holds the member the most
\* recent delete removed).
C20_SlotCoherent ==
  (batch = 0 /\ lastDeleted # Null)
    => lastDeleted[1].id \notin IdsOf(tasks)

====
